---- MODULE Spec2Model ----
(***************************************************************************)
(* Auction lifecycle of the auction controller: Create (addNewAuctionItem), *)
(* Delete (removeFromAuction) and Republish (republishItem) over the        *)
(* Auction, Bid and User collections, with the error middleware that turns  *)
(* an ErrorHandler into a response status.  Bid placement and the Auction   *)
(* Closer are not part of the controller; they are modelled from the        *)
(* design document.                                                         *)
(*                                                                          *)
(* A handler is split at its awaits: every store call is one step, so that  *)
(* two requests can interleave at their store reads and writes and so that  *)
(* a store call can fail (the promise rejects, catchAsyncErrors hands the   *)
(* error to the error middleware, the handler ends).                        *)
(***************************************************************************)
EXTENDS Integers, FiniteSets, TLC

\* ------------------------------------------------------------------ bounds
\* Instants are 0..MaxTime; bid amounts are 20, 40, .. 20 * MaxBids.
MaxTime == 3
MaxBids == 1
\* at most MaxFaults store calls fail in a run
MaxFaults == 1

Times == 0..MaxTime
Amounts == {20 * k : k \in 1..MaxBids}
UserIds == {"u1", "u2"}
\* the users who list auctions (the others only bid)
Sellers == {"u1"}
AuctionIds == {1, 2}
Procs == {1, 2}

\* A field that req.body does not carry, the null user reference, a document
\* findById does not find, and an id that ObjectId.isValid rejects.
Missing == -1
NoUser == "null"
NoDoc == [absent |-> TRUE]
BadId == 0

VARIABLES
    now,        \* Date.now()
    auctions,   \* Auction collection: id -> document or NoDoc
    usedIds,    \* ids the store has handed out (an id is never reused)
    bidStore,   \* Bid collection: set of [auctionItem, bidder, amount]
    users,      \* User collection: id -> [moneySpent, auctionsWon, unpaidCommission]
    procs,      \* the requests in flight: slot -> locals of the handler
    applied,    \* history: what the Closer added to the winner at the last close of an auction
    undone,     \* history: what reversals have taken from the winner since that close
    faults      \* the number of store calls that have failed

vars == <<now, auctions, usedIds, bidStore, users, procs, applied, undone, faults>>

\* ------------------------------------------------------------- error path
\* errorMiddleware: err.statusCode = err.statusCode || 500 (0 stands for an
\* ErrorHandler built without a status code).
errorMiddleware(statusCode) == IF statusCode = 0 THEN 500 ELSE statusCode

\* mongoose.Types.ObjectId.isValid
IsValidId(id) == id # BadId

\* Auction.findById
FindAuction(id) == IF id \in AuctionIds THEN auctions[id] ELSE NoDoc

\* the glossary's "active auction": startTime <= now < endTime
IsActive(a, t) ==
    /\ auctions[a] # NoDoc
    /\ auctions[a].startTime <= t
    /\ t < auctions[a].endTime

\* --------------------------------------------------------- handler locals
Idle ==
    [pc |-> "idle", op |-> "none", user |-> NoUser, id |-> BadId,
     startTime |-> Missing, endTime |-> Missing,
     hb |-> NoUser, cb |-> 0, cc |-> FALSE, ms |-> 0, aw |-> 0, amount |-> 0,
     del |-> "none", clr |-> "none",
     error |-> "none", status |-> 0,
     failedAt |-> "none", replay |-> FALSE, settled |-> FALSE]

\* the handler has returned: res.status(..).json(..) or next(err)
Responded(op, error, status) ==
    [Idle EXCEPT !.pc = "done", !.op = op, !.error = error, !.status = status]

\* next(new ErrorHandler(message, statusCode)) through the error middleware
Rejected(op, error, statusCode) ==
    Responded(op, error, errorMiddleware(statusCode))

\* a store call rejected: catchAsyncErrors passes the error on, which has no
\* statusCode.  The request is remembered so that it can be replayed.
StoreFailure(p) ==
    [procs[p] EXCEPT !.pc = "done", !.error = "StoreError",
                     !.status = errorMiddleware(0), !.failedAt = procs[p].pc,
                     !.hb = NoUser, !.cb = 0, !.cc = FALSE, !.ms = 0, !.aw = 0,
                     !.del = "none", !.clr = "none"]

InFlight(p) == procs[p].pc \notin {"idle", "done"}
Quiet == \A p \in Procs : ~InFlight(p)

\* ------------------------------------------------------------------- Init
Init ==
    /\ now = 0
    /\ auctions = [a \in AuctionIds |-> NoDoc]
    /\ usedIds = {}
    /\ bidStore = {}
    /\ users = [u \in UserIds |-> [moneySpent |-> 0, auctionsWon |-> 0, unpaidCommission |-> 0]]
    /\ procs = [p \in Procs |-> Idle]
    /\ applied = [a \in AuctionIds |-> [moneySpent |-> 0, auctionsWon |-> 0]]
    /\ undone = [a \in AuctionIds |-> [moneySpent |-> 0, auctionsWon |-> 0]]
    /\ faults = 0

\* the clock advances
Tick ==
    /\ now < MaxTime
    /\ now' = now + 1
    /\ UNCHANGED <<auctions, usedIds, bidStore, users, procs, applied, undone, faults>>

\* ----------------------------------------------------------------- Create
\* addNewAuctionItem, lines 11-66: the checks on the request that come
\* before the active-auction lookup; "ok" when all pass.
CreateValidation(image, details, startTime, endTime) ==
    IF image = "none" THEN "ImageRequired"
    ELSE IF image \notin {"image/png", "image/jpeg", "image/webp"} THEN "InvalidFormat"
    ELSE IF ~details \/ startTime = Missing \/ endTime = Missing THEN "MissingDetails"
    ELSE IF startTime < now THEN "StartNotFuture"
    ELSE IF startTime >= endTime THEN "StartNotBeforeEnd"
    ELSE "ok"

\* the lookup with the comparison turned round ($lt for $gt)
AlreadyOneAuctionActiveLt(u) ==
    {a \in AuctionIds : /\ auctions[a] # NoDoc
                        /\ auctions[a].createdBy = u
                        /\ auctions[a].endTime < now}

\* Auction.find({createdBy, endTime: {$gt: Date.now()}})
AlreadyOneAuctionActive(u) ==
    {a \in AuctionIds : /\ auctions[a] # NoDoc
                        /\ auctions[a].createdBy = u
                        /\ auctions[a].endTime > now}

\* addNewAuctionItem up to its first await and the check on its result
CreateStart(p, u, image, details, startTime, endTime) ==
    /\ ~InFlight(p)
    /\ LET v == CreateValidation(image, details, startTime, endTime) IN
       procs' = [procs EXCEPT ![p] =
          IF v # "ok" THEN [Rejected("create", v, 400) EXCEPT !.user = u]
          ELSE IF AlreadyOneAuctionActive(u) # {}
          THEN [Rejected("create", "AlreadyActive", 400) EXCEPT !.user = u]
          ELSE [Idle EXCEPT !.pc = "insert", !.op = "create", !.user = u,
                            !.startTime = startTime, !.endTime = endTime]]
    /\ UNCHANGED <<now, auctions, usedIds, bidStore, users, applied, undone, faults>>

\* the document Auction.create stores (schema defaults for the bidding state)
NewAuction(u, startTime, endTime) ==
    [createdBy |-> u, startTime |-> startTime, endTime |-> endTime,
     currentBid |-> 0, highestBidder |-> NoUser, bids |-> {},
     commissionCalculated |-> FALSE]

FreshId == CHOOSE a \in AuctionIds \ usedIds : \A b \in AuctionIds \ usedIds : a <= b

\* cloudinary upload, then Auction.create, then the 201 response
CreateInsert(p) ==
    /\ procs[p].pc = "insert"
    /\ usedIds # AuctionIds
    /\ auctions' = [auctions EXCEPT ![FreshId] =
                       NewAuction(procs[p].user, procs[p].startTime, procs[p].endTime)]
    /\ usedIds' = usedIds \cup {FreshId}
    /\ procs' = [procs EXCEPT ![p] = [Responded("create", "none", 201) EXCEPT
                                          !.user = procs[p].user]]
    /\ UNCHANGED <<now, bidStore, users, applied, undone, faults>>

\* the upload or the insert fails: the catch block answers 500
CreateInsertFail(p) ==
    /\ procs[p].pc = "insert"
    /\ procs' = [procs EXCEPT ![p] = Rejected("create", "CreateFailed", 500)]
    /\ faults < MaxFaults
    /\ faults' = faults + 1
    /\ UNCHANGED <<now, auctions, usedIds, bidStore, users, applied, undone>>

\* ----------------------------------------------------------------- Delete
\* removeFromAuction: findById, then deleteOne on the document found
Delete(p, id) ==
    /\ ~InFlight(p)
    /\ IF ~IsValidId(id)
         THEN /\ procs' = [procs EXCEPT ![p] = Rejected("delete", "InvalidId", 400)]
              /\ UNCHANGED auctions
         ELSE IF FindAuction(id) = NoDoc
         THEN /\ procs' = [procs EXCEPT ![p] = Rejected("delete", "NotFound", 404)]
              /\ UNCHANGED auctions
         ELSE /\ auctions' = [auctions EXCEPT ![id] = NoDoc]
              /\ procs' = [procs EXCEPT ![p] = Responded("delete", "none", 200)]
    /\ UNCHANGED <<now, usedIds, bidStore, users, applied, undone, faults>>

\* -------------------------------------------------------------- Republish
\* the checks without the one on the auction's endTime
RepublishValidationNoEndCheck(id, startTime, endTime) ==
    IF ~IsValidId(id) THEN "InvalidId"
    ELSE IF FindAuction(id) = NoDoc THEN "NotFound"
    ELSE IF startTime = Missing \/ endTime = Missing THEN "MissingTimes"
    ELSE IF startTime < now THEN "StartNotFuture"
    ELSE IF startTime >= endTime THEN "StartNotBeforeEnd"
    ELSE "ok"

\* republishItem, lines 188-228: the checks before the first write, on the
\* document findById returned; "ok" when all pass.
RepublishValidation(id, startTime, endTime) ==
    IF ~IsValidId(id) THEN "InvalidId"
    ELSE IF FindAuction(id) = NoDoc THEN "NotFound"
    ELSE IF FindAuction(id).endTime > now THEN "StillActive"
    ELSE IF startTime = Missing \/ endTime = Missing THEN "MissingTimes"
    ELSE IF startTime < now THEN "StartNotFuture"
    ELSE IF startTime >= endTime THEN "StartNotBeforeEnd"
    ELSE "ok"

\* the statusCode each ErrorHandler of republishItem is built with (the one
\* for missing times is built without one)
RepublishStatusCode(error) ==
    CASE error = "NotFound" -> 404
      [] error = "MissingTimes" -> 0
      [] OTHER -> 400

\* the request repeats the one that failed in this slot at a store call
IsReplay(p, u, id, startTime, endTime) ==
    /\ procs[p].pc = "done"
    /\ procs[p].op = "republish"
    /\ procs[p].error = "StoreError"
    /\ procs[p].user = u
    /\ procs[p].id = id
    /\ procs[p].startTime = startTime
    /\ procs[p].endTime = endTime

\* the two checks on the new schedule moved behind the update of the auction
RepublishStartChecksLate(p, u, id, startTime, endTime) ==
    /\ ~InFlight(p)
    /\ LET v == RepublishValidation(id, startTime, endTime) IN
       /\ v \in {"StartNotFuture", "StartNotBeforeEnd"}
       /\ procs' = [procs EXCEPT ![p] =
             [Rejected("republish", v, 400) EXCEPT !.id = id]]
       /\ auctions' = [auctions EXCEPT ![id] =
             [@ EXCEPT !.startTime = startTime, !.endTime = endTime, !.bids = {},
                       !.commissionCalculated = FALSE, !.currentBid = 0,
                       !.highestBidder = NoUser]]
    /\ UNCHANGED <<now, usedIds, bidStore, users, applied, undone, faults>>

\* republishItem up to the end of its checks.  replay, failedAt and settled
\* are history: whether this request repeats one that failed at a store
\* call, where that one failed, and whether the Closer had settled the
\* auction when the request was first made.
RepublishStart(p, u, id, startTime, endTime) ==
    /\ ~InFlight(p)
    /\ LET v == RepublishValidation(id, startTime, endTime)
           item == FindAuction(id)
           replay == IsReplay(p, u, id, startTime, endTime)
           failedAt == IF replay THEN procs[p].failedAt ELSE "none"
           settled == IF replay THEN procs[p].settled
                      ELSE item # NoDoc /\ item.commissionCalculated
       IN procs' = [procs EXCEPT ![p] =
          IF v # "ok"
          THEN [Rejected("republish", v, RepublishStatusCode(v)) EXCEPT
                   !.id = id, !.replay = replay, !.failedAt = failedAt,
                   !.settled = replay /\ settled]
          ELSE [Idle EXCEPT !.pc = IF item.highestBidder # NoUser THEN "findUser" ELSE "reset",
                            !.op = "republish", !.user = u, !.id = id,
                            !.startTime = startTime, !.endTime = endTime,
                            !.hb = item.highestBidder, !.cb = item.currentBid,
                            !.cc = item.commissionCalculated,
                            !.replay = replay, !.failedAt = failedAt,
                            !.settled = settled]]
    /\ UNCHANGED <<now, auctions, usedIds, bidStore, users, applied, undone, faults>>

\* line 231: User.findById(auctionItem.highestBidder); for a user that is
\* gone it returns null, and line 232 throws a TypeError on null.moneySpent
RepublishFindUser(p) ==
    /\ procs[p].pc = "findUser"
    /\ procs' = IF users[procs[p].hb] = NoDoc
                THEN [procs EXCEPT ![p] =
                        [Rejected("republish", "TypeError", 0) EXCEPT !.id = procs[p].id]]
                ELSE [procs EXCEPT ![p].pc = "saveUser",
                                   ![p].ms = users[procs[p].hb].moneySpent,
                                   ![p].aw = users[procs[p].hb].auctionsWon]
    /\ UNCHANGED <<now, auctions, usedIds, bidStore, users, applied, undone, faults>>

\* the reversal with the sign slipped
ReversedMoneySpentPlus(ms, currentBid) == ms + currentBid

\* lines 232-233: the values save() will write, from the documents read
ReversedMoneySpent(ms, currentBid) == ms - currentBid
ReversedAuctionsWon(aw) == aw - 1

\* line 234: highestBidder.save() sets the two modified paths
RepublishSaveUser(p) ==
    /\ procs[p].pc = "saveUser"
    /\ LET w == procs[p].hb
           ms == ReversedMoneySpent(procs[p].ms, procs[p].cb)
           aw == ReversedAuctionsWon(procs[p].aw)
       IN /\ users' = [users EXCEPT ![w].moneySpent = ms, ![w].auctionsWon = aw]
          /\ undone' = [undone EXCEPT ![procs[p].id] =
                [moneySpent |-> @.moneySpent + (users[w].moneySpent - ms),
                 auctionsWon |-> @.auctionsWon + (users[w].auctionsWon - aw)]]
    /\ procs' = [procs EXCEPT ![p].pc = "reset", ![p].ms = 0, ![p].aw = 0]
    /\ UNCHANGED <<now, auctions, usedIds, bidStore, applied, faults>>

\* the update without the two fields of the last bid
ResetAuctionKeepsBid(doc, startTime, endTime) ==
    [doc EXCEPT !.startTime = startTime, !.endTime = endTime, !.bids = {},
                !.commissionCalculated = FALSE]

\* the update without the reference to the last bidder
ResetAuctionKeepsWinner(doc, startTime, endTime) ==
    [doc EXCEPT !.startTime = startTime, !.endTime = endTime, !.bids = {},
                !.commissionCalculated = FALSE, !.currentBid = 0]

\* lines 239-246: the update findByIdAndUpdate applies to the document
ResetAuction(doc, startTime, endTime) ==
    [doc EXCEPT !.startTime = startTime, !.endTime = endTime, !.bids = {},
                !.commissionCalculated = FALSE, !.currentBid = 0,
                !.highestBidder = NoUser]

\* lines 237-248; on a document deleted meanwhile findByIdAndUpdate returns
\* null and auctionItem._id at line 252 throws before either call is made
RepublishReset(p) ==
    /\ procs[p].pc = "reset"
    /\ LET id == procs[p].id IN
       IF auctions[id] = NoDoc
       THEN /\ procs' = [procs EXCEPT ![p] =
                   [Rejected("republish", "TypeError", 0) EXCEPT !.id = id]]
            /\ UNCHANGED auctions
       ELSE /\ auctions' = [auctions EXCEPT ![id] =
                               ResetAuction(@, procs[p].startTime, procs[p].endTime)]
            /\ procs' = [procs EXCEPT ![p].pc = "cleanup",
                                      ![p].del = "pending", ![p].clr = "pending"]
    /\ UNCHANGED <<now, usedIds, bidStore, users, applied, undone, faults>>

\* lines 251-261: Promise.all settles once both calls have; 200 when both
\* succeeded, otherwise the rejection goes to the error middleware
Settle(p, del, clr) ==
    IF del = "pending" \/ clr = "pending"
    THEN [procs[p] EXCEPT !.del = del, !.clr = clr]
    ELSE IF del = "ok" /\ clr = "ok"
    THEN [Responded("republish", "none", 200) EXCEPT
             !.id = procs[p].id, !.hb = procs[p].hb, !.cc = procs[p].cc,
             !.replay = procs[p].replay, !.failedAt = procs[p].failedAt,
             !.settled = procs[p].settled]
    ELSE [StoreFailure(p) EXCEPT !.del = del, !.clr = clr]

\* the Bid documents deleteMany({auctionItem}) removes
BidsOf(id) == {b \in bidStore : b.auctionItem = id}

\* line 252: Bid.deleteMany({auctionItem: auctionItem._id})
RepublishDeleteBids(p) ==
    /\ procs[p].pc = "cleanup"
    /\ procs[p].del = "pending"
    /\ bidStore' = bidStore \ BidsOf(procs[p].id)
    /\ procs' = [procs EXCEPT ![p] = Settle(p, "ok", procs[p].clr)]
    /\ UNCHANGED <<now, auctions, usedIds, users, applied, undone, faults>>

\* line 253: User.findByIdAndUpdate(req.user._id, {unpaidCommission: 0})
RepublishClearCommission(p) ==
    /\ procs[p].pc = "cleanup"
    /\ procs[p].clr = "pending"
    /\ users' = [users EXCEPT ![procs[p].user].unpaidCommission = 0]
    /\ procs' = [procs EXCEPT ![p] = Settle(p, procs[p].del, "ok")]
    /\ UNCHANGED <<now, auctions, usedIds, bidStore, applied, undone, faults>>

\* a store call of republishItem rejects
RepublishFindUserFail(p) ==
    /\ procs[p].pc = "findUser"
    /\ procs' = [procs EXCEPT ![p] = StoreFailure(p)]
    /\ faults < MaxFaults
    /\ faults' = faults + 1
    /\ UNCHANGED <<now, auctions, usedIds, bidStore, users, applied, undone>>

RepublishSaveUserFail(p) ==
    /\ procs[p].pc = "saveUser"
    /\ procs' = [procs EXCEPT ![p] = StoreFailure(p)]
    /\ faults < MaxFaults
    /\ faults' = faults + 1
    /\ UNCHANGED <<now, auctions, usedIds, bidStore, users, applied, undone>>

\* the rejection of the reset is swallowed and the handler goes on
RepublishResetFailGoesOn(p) ==
    /\ procs[p].pc = "reset"
    /\ procs' = [procs EXCEPT ![p].pc = "cleanup",
                              ![p].del = "pending", ![p].clr = "pending"]
    /\ faults < MaxFaults
    /\ faults' = faults + 1
    /\ UNCHANGED <<now, auctions, usedIds, bidStore, users, applied, undone>>

RepublishResetFail(p) ==
    /\ procs[p].pc = "reset"
    /\ procs' = [procs EXCEPT ![p] = StoreFailure(p)]
    /\ faults < MaxFaults
    /\ faults' = faults + 1
    /\ UNCHANGED <<now, auctions, usedIds, bidStore, users, applied, undone>>

RepublishDeleteBidsFail(p) ==
    /\ procs[p].pc = "cleanup"
    /\ procs[p].del = "pending"
    /\ procs' = [procs EXCEPT ![p] = Settle(p, "fail", procs[p].clr)]
    /\ faults < MaxFaults
    /\ faults' = faults + 1
    /\ UNCHANGED <<now, auctions, usedIds, bidStore, users, applied, undone>>

RepublishClearCommissionFail(p) ==
    /\ procs[p].pc = "cleanup"
    /\ procs[p].clr = "pending"
    /\ procs' = [procs EXCEPT ![p] = Settle(p, procs[p].del, "fail")]
    /\ faults < MaxFaults
    /\ faults' = faults + 1
    /\ UNCHANGED <<now, auctions, usedIds, bidStore, users, applied, undone>>

\* ------------------------------------------- bids and the Auction Closer
\* Bid Validator, on acceptance: a new Bid record, and currentBid and
\* highestBidder set on the auction
PlaceBid(a, u, amount) ==
    /\ IsActive(a, now)
    /\ amount > auctions[a].currentBid
    /\ u # auctions[a].createdBy
    /\ LET bid == [auctionItem |-> a, bidder |-> u, amount |-> amount] IN
       /\ bidStore' = bidStore \cup {bid}
       /\ auctions' = [auctions EXCEPT ![a].currentBid = amount,
                                       ![a].highestBidder = u,
                                       ![a].bids = @ \cup {bid}]
    /\ UNCHANGED <<now, usedIds, users, procs, applied, undone, faults>>

\* Commission Calculator: a rate applied to the winning amount
CommissionRate == 5
Commission(winningAmount) == (winningAmount * CommissionRate) \div 100

\* Auction Closer, for one due auction
Close(a) ==
    /\ auctions[a] # NoDoc
    /\ auctions[a].endTime <= now
    /\ ~auctions[a].commissionCalculated
    /\ auctions' = [auctions EXCEPT ![a].commissionCalculated = TRUE]
    /\ LET w == auctions[a].highestBidder
           amount == auctions[a].currentBid
       IN IF w = NoUser
          THEN /\ UNCHANGED users
               /\ applied' = [applied EXCEPT ![a] = [moneySpent |-> 0, auctionsWon |-> 0]]
          ELSE /\ users' = [users EXCEPT ![w].moneySpent = @ + amount,
                                         ![w].auctionsWon = @ + 1,
                                         ![w].unpaidCommission = @ + Commission(amount)]
               /\ applied' = [applied EXCEPT ![a] = [moneySpent |-> amount, auctionsWon |-> 1]]
    /\ undone' = [undone EXCEPT ![a] = [moneySpent |-> 0, auctionsWon |-> 0]]
    /\ UNCHANGED <<now, usedIds, bidStore, procs, faults>>

\* ------------------------------------------------ concurrent bid requests
\* A bid request is the Bid Validator on the auction as read, then the
\* conditional update of the store.  The amounts offered in the bid race are
\* 10, 20, .. 10 * MaxOffers, by two bidders besides the seller.
MaxOffers == 2
Offers == {10 * k : k \in 1..MaxOffers}
Bidders == {"u2", "u3"}

\* Bid Validator: the rejection reason, or "ok"
BidValidation(a, u, amount) ==
    IF ~IsActive(a, now) THEN "NotActive"
    ELSE IF amount <= auctions[a].currentBid THEN "AmountTooLow"
    ELSE IF u = auctions[a].createdBy THEN "SelfBid"
    ELSE "ok"

\* placeBid up to the end of the validation, on the auction read
BidStart(p, a, u, amount) ==
    /\ ~InFlight(p)
    /\ LET v == BidValidation(a, u, amount) IN
       procs' = [procs EXCEPT ![p] =
          IF v # "ok" THEN [Rejected("bid", v, 400) EXCEPT !.id = a, !.amount = amount]
          ELSE [Idle EXCEPT !.pc = "applyBid", !.op = "bid", !.user = u, !.id = a,
                            !.cb = auctions[a].currentBid, !.amount = amount]]
    /\ UNCHANGED <<now, auctions, usedIds, bidStore, users, applied, undone, faults>>

\* the update that writes whatever the document holds by now
AcceptsBlindly(primitive, doc, cb, amount) == doc # NoDoc

\* the store's conditional update: compare-and-set on the currentBid read,
\* or set-if-greater
Accepts(primitive, doc, cb, amount) ==
    /\ doc # NoDoc
    /\ IF primitive = "compareAndSet" THEN doc.currentBid = cb
       ELSE amount > doc.currentBid

\* the conditional update is applied; on acceptance the Bid record is
\* appended and currentBid and highestBidder are set
BidApply(p, primitive) ==
    /\ procs[p].pc = "applyBid"
    /\ LET a == procs[p].id
           bid == [auctionItem |-> a, bidder |-> procs[p].user, amount |-> procs[p].amount]
       IN IF Accepts(primitive, auctions[a], procs[p].cb, procs[p].amount)
          THEN /\ bidStore' = bidStore \cup {bid}
               /\ auctions' = [auctions EXCEPT ![a].currentBid = bid.amount,
                                               ![a].highestBidder = bid.bidder,
                                               ![a].bids = @ \cup {bid}]
               /\ procs' = [procs EXCEPT ![p] =
                      [Responded("bid", "none", 200) EXCEPT
                          !.id = a, !.user = bid.bidder, !.amount = bid.amount]]
          ELSE /\ procs' = [procs EXCEPT ![p] =
                      [Rejected("bid", "StaleBid", 409) EXCEPT
                          !.id = a, !.user = bid.bidder, !.amount = bid.amount]]
               /\ UNCHANGED <<auctions, bidStore>>
    /\ UNCHANGED <<now, usedIds, users, applied, undone, faults>>

\* ------------------------------------------------------------ user removal
\* a User record is deleted, independently of the auctions that refer to it
DeleteUser(u) ==
    /\ users[u] # NoDoc
    /\ users' = [users EXCEPT ![u] = NoDoc]
    /\ UNCHANGED <<now, auctions, usedIds, bidStore, procs, applied, undone, faults>>

\* --------------------------------------------------------- specifications
\* The schedules a request may carry: every pair of instants, and two with
\* a time missing.
Schedules ==
    (Times \X Times) \cup {<<Missing, MaxTime>>, <<0, Missing>>}

\* a schedule that opens at the next instant and closes one later
Soon == {<<now + 1, now + 2>>}

\* a Create with every field present and an accepted image format
CreateRequest(p, S) ==
    \E u \in Sellers, s \in S : CreateStart(p, u, "image/png", TRUE, s[1], s[2])

\* a Create without image, with an image of another format, with a detail missing
MalformedCreate(p) ==
    \E u \in Sellers, f \in {<<"none", TRUE>>, <<"image/gif", TRUE>>, <<"image/png", FALSE>>} :
        CreateStart(p, u, f[1], f[2], 0, MaxTime)

DeleteRequest(p) ==
    \E id \in AuctionIds \cup {BadId} : Delete(p, id)

RepublishRequest(p, S) ==
    \E u \in UserIds, id \in AuctionIds \cup {BadId}, s \in S :
        RepublishStart(p, u, id, s[1], s[2])

\* the request that failed at a store call in slot p is sent again, or given up
Pending(p) == procs[p].pc = "done" /\ procs[p].error = "StoreError"

Replay(p) ==
    /\ Pending(p)
    /\ RepublishStart(p, procs[p].user, procs[p].id, procs[p].startTime, procs[p].endTime)

GiveUp(p) ==
    /\ Pending(p)
    /\ procs' = [procs EXCEPT ![p] = Idle]
    /\ UNCHANGED <<now, auctions, usedIds, bidStore, users, applied, undone, faults>>

\* the handler in slot p continues after an await
Continue(p) ==
    \/ CreateInsert(p)
    \/ RepublishFindUser(p)
    \/ RepublishSaveUser(p)
    \/ RepublishReset(p)
    \/ RepublishDeleteBids(p)
    \/ RepublishClearCommission(p)

\* a store call of the handler in slot p rejects
Fail(p) ==
    \/ CreateInsertFail(p)
    \/ RepublishFindUserFail(p)
    \/ RepublishSaveUserFail(p)
    \/ RepublishResetFail(p)
    \/ RepublishDeleteBidsFail(p)
    \/ RepublishClearCommissionFail(p)

\* bids, the closer and the clock
Env ==
    \/ Tick
    \/ \E a \in AuctionIds, u \in UserIds, amount \in Amounts : PlaceBid(a, u, amount)
    \/ \E a \in AuctionIds : Close(a)

\* Requests run to completion one at a time and every store call succeeds.
Next ==
    \/ Quiet /\ Env
    \/ Quiet /\ CreateRequest(1, Schedules)
    \/ Quiet /\ MalformedCreate(1)
    \/ Quiet /\ DeleteRequest(1)
    \/ Quiet /\ RepublishRequest(1, Schedules)
    \/ Continue(1)

Spec == Init /\ [][Next]_vars

\* One request at a time, and a store call may fail; the failed request is
\* replayed or given up before anything else happens.
NextFail ==
    \/ Quiet /\ ~Pending(1) /\ Env
    \/ Quiet /\ ~Pending(1) /\ CreateRequest(1, Soon)
    \/ Quiet /\ ~Pending(1) /\ DeleteRequest(1)
    \/ Quiet /\ ~Pending(1) /\ RepublishRequest(1, Soon)
    \/ Replay(1)
    \/ GiveUp(1)
    \/ Continue(1)
    \/ Fail(1)

SpecFail == Init /\ [][NextFail]_vars

\* Two Creates interleave between the active-auction lookup and the insert.
NextCreateRace ==
    \/ Env
    \/ \E p \in Procs : CreateRequest(p, Soon)
    \/ \E p \in Procs : CreateInsert(p)

SpecCreateRace == Init /\ [][NextCreateRace]_vars

\* Republish and Delete requests interleave at their store calls, with bids,
\* the closer and the clock in between; auctions are created one at a time.
NextRepublishRace ==
    \/ Env
    \/ Quiet /\ CreateRequest(1, Soon)
    \/ \E p \in Procs : DeleteRequest(p)
    \/ \E p \in Procs : RepublishRequest(p, Soon)
    \/ \E p \in Procs : Continue(p)

SpecRepublishRace == Init /\ [][NextRepublishRace]_vars

\* Bid requests interleave between the read of the auction and the
\* conditional update; the store holds the seller and two bidders, and the
\* seller lists auctions one at a time.
InitBids ==
    /\ now = 0
    /\ auctions = [a \in AuctionIds |-> NoDoc]
    /\ usedIds = {}
    /\ bidStore = {}
    /\ users = [u \in UserIds \cup Bidders |->
                   [moneySpent |-> 0, auctionsWon |-> 0, unpaidCommission |-> 0]]
    /\ procs = [p \in Procs |-> Idle]
    /\ applied = [a \in AuctionIds |-> [moneySpent |-> 0, auctionsWon |-> 0]]
    /\ undone = [a \in AuctionIds |-> [moneySpent |-> 0, auctionsWon |-> 0]]
    /\ faults = 0

BidRequest(p) ==
    \E a \in AuctionIds, u \in UserIds \cup Bidders, amount \in Offers :
        BidStart(p, a, u, amount)

NextBids ==
    \/ Tick
    \/ Quiet /\ CreateRequest(1, Soon)
    \/ CreateInsert(1)
    \/ \E p \in Procs : BidRequest(p)
    \/ \E p \in Procs, primitive \in {"compareAndSet", "setIfGreater"} : BidApply(p, primitive)

SpecBids == InitBids /\ [][NextBids]_vars

\* Requests run one at a time and every store call succeeds, while the
\* users who bid may be deleted; requests and bids come from users that
\* exist.  The closer is left out: the design document does not say what it
\* does with a due auction whose winner is gone.
NextUserGone ==
    \/ Quiet /\ Tick
    \/ Quiet /\ \E a \in AuctionIds, u \in UserIds, amount \in Amounts :
                    users[u] # NoDoc /\ PlaceBid(a, u, amount)
    \/ Quiet /\ \E u \in UserIds \ Sellers : DeleteUser(u)
    \/ Quiet /\ CreateRequest(1, Soon)
    \/ Quiet /\ \E u \in UserIds, id \in AuctionIds, s \in Soon :
                    users[u] # NoDoc /\ RepublishStart(1, u, id, s[1], s[2])
    \/ Continue(1)

SpecUserGone == Init /\ [][NextUserGone]_vars

\* ----------------------------------------------------------------- claims
\* the step in which slot p takes up a request of kind op
Arrives(p, op) ==
    /\ ~InFlight(p)
    /\ procs'[p] # procs[p]
    /\ procs'[p].op = op

\* C1: no seller ever has two auctions that are both active (startTime <=
\* now < endTime) at the same instant, after any sequence of Create,
\* Republish and Delete requests run one at a time.
C1_OneActivePerSeller ==
    \A a, b \in AuctionIds :
        (a # b /\ IsActive(a, now) /\ IsActive(b, now))
            => auctions[a].createdBy # auctions[b].createdBy

\* C2: Close followed by Republish of the same auction takes from the
\* winner exactly what the Closer added for that auction: once the reversal
\* of a settled auction is saved, the moneySpent and auctionsWon taken back
\* equal the amounts the close had added.
C2_ReversalEqualsSettlement ==
    \A p \in Procs :
        (procs[p].pc \in {"reset", "cleanup"} /\ procs[p].cc /\ procs[p].hb # NoUser)
            => undone[procs[p].id] = applied[procs[p].id]

C2_Witness ==
    \E p \in Procs :
        /\ procs[p].pc = "reset"
        /\ procs[p].cc
        /\ procs[p].hb # NoUser
        /\ applied[procs[p].id].moneySpent > 0
        /\ undone[procs[p].id] = applied[procs[p].id]
        /\ users[procs[p].hb].moneySpent = 0
        /\ users[procs[p].hb].auctionsWon = 0

\* C3: when two Republish requests for the same closed, settled auction
\* with a highestBidder interleave and both succeed, the winner's moneySpent
\* and auctionsWon have been taken back exactly once in total.
C3_ReversedExactlyOnce ==
    \A p, q \in Procs :
        (/\ p # q
         /\ procs[p].pc = "done" /\ procs[q].pc = "done"
         /\ procs[p].op = "republish" /\ procs[q].op = "republish"
         /\ procs[p].status = 200 /\ procs[q].status = 200
         /\ procs[p].id = procs[q].id
         /\ procs[p].hb # NoUser /\ procs[q].hb # NoUser
         /\ procs[p].cc /\ procs[q].cc
         /\ auctions[procs[p].id] # NoDoc
         /\ auctions[procs[p].id].endTime > now)
            => undone[procs[p].id] = applied[procs[p].id]

\* C4: when a Republish of a settled auction fails at a store call and the
\* same request is replayed, then after the replay the settlement has been
\* reversed exactly once, the auction is reset and none of its bids remain.
C4_ReplaySafe ==
    [][\A p \in Procs :
          (/\ procs[p].replay \/ Pending(p)
           /\ procs[p].settled
           /\ procs'[p] # procs[p]
           /\ procs'[p].pc = "done"
           /\ procs'[p].replay
           /\ procs'[p].error # "StoreError")
              => LET id == procs[p].id IN
                 /\ undone'[id] = applied'[id]
                 /\ auctions'[id].highestBidder = NoUser
                 /\ auctions'[id].currentBid = 0
                 /\ auctions'[id].bids = {}
                 /\ auctions'[id].endTime > now
                 /\ {b \in bidStore' : b.auctionItem = id} = {}]_vars

\* C5: once a Republish has committed the auction reset, it does not end
\* before every Bid record of the auction is deleted and the requester's
\* unpaidCommission is 0, also when a store call of the cleanup fails.
C5_CleanupCompleted ==
    [][\A p \in Procs :
          (procs[p].pc = "cleanup" /\ procs'[p].pc = "done")
              => /\ {b \in bidStore' : b.auctionItem = procs[p].id} = {}
                 /\ users'[procs[p].user].unpaidCommission = 0]_vars

\* C6: a Republish of an auction whose endTime is later than the time of
\* the request fails with StillActive (400), and a Republish goes on to its
\* writes only from an auction with endTime <= now.
C6_RepublishOnlyWhenClosed ==
    [][\A p \in Procs :
          Arrives(p, "republish") =>
              LET id == procs'[p].id IN
              /\ (id \in AuctionIds /\ auctions[id] # NoDoc /\ auctions[id].endTime > now)
                    => /\ procs'[p].pc = "done"
                       /\ procs'[p].error = "StillActive"
                       /\ procs'[p].status = 400
                       /\ UNCHANGED <<auctions, bidStore, users>>
              /\ procs'[p].pc # "done"
                    => /\ auctions[id] # NoDoc
                       /\ auctions[id].endTime <= now]_vars

C6_Witness ==
    \E p \in Procs :
        /\ procs[p].op = "republish"
        /\ procs[p].error = "StillActive"
        /\ auctions[procs[p].id] # NoDoc
        /\ auctions[procs[p].id].endTime > now

\* C7: right after the reset of a Republish the auction has the requested
\* startTime and endTime, no bids in its collection, commissionCalculated
\* false, currentBid 0 and no highestBidder, whatever it held before.
C7_ResetState ==
    \A p \in Procs :
        procs[p].pc = "cleanup" =>
            LET doc == auctions[procs[p].id] IN
            /\ doc # NoDoc
            /\ doc.startTime = procs[p].startTime
            /\ doc.endTime = procs[p].endTime
            /\ doc.bids = {}
            /\ doc.commissionCalculated = FALSE
            /\ doc.currentBid = 0
            /\ doc.highestBidder = NoUser

C7_Witness ==
    \E p \in Procs :
        /\ procs[p].pc = "cleanup"
        /\ procs[p].hb # NoUser
        /\ procs[p].cb > 0
        /\ procs[p].cc
        /\ auctions[procs[p].id].currentBid = 0
        /\ auctions[procs[p].id].highestBidder = NoUser

\* C8: a Create goes on to persist an auction only if its startTime is
\* strictly later than the time of the request and earlier than its endTime.
C8_CreateOnlyFutureStart ==
    \A p \in Procs :
        procs[p].pc = "insert" =>
            /\ procs[p].startTime > now
            /\ procs[p].startTime < procs[p].endTime

\* C9: a Create by a seller who has an active auction (startTime <= now <
\* endTime) is rejected, with the conflict error unless one of the earlier
\* checks on the request already failed, and persists no auction.
CreateValidationErrors ==
    {"ImageRequired", "InvalidFormat", "MissingDetails", "StartNotFuture", "StartNotBeforeEnd"}

C9_ActiveSellerRejected ==
    [][\A p \in Procs :
          (/\ Arrives(p, "create")
           /\ \E a \in AuctionIds :
                 IsActive(a, now) /\ auctions[a].createdBy = procs'[p].user)
              => /\ procs'[p].pc = "done"
                 /\ procs'[p].status = 400
                 /\ procs'[p].error \in CreateValidationErrors \cup {"AlreadyActive"}
                 /\ auctions' = auctions]_vars

C9_Witness ==
    \E p \in Procs :
        /\ procs[p].op = "create"
        /\ procs[p].error = "AlreadyActive"
        /\ \E a \in AuctionIds :
              IsActive(a, now) /\ auctions[a].createdBy = procs[p].user

\* C10: the active-auction lookup and the insert of a Create behave as one
\* atomic check-then-act: when a Create inserts, the seller has no auction
\* with endTime > now, so of two concurrent Creates by one seller at most
\* one persists an auction.
C10_CheckThenAct ==
    [][\A p \in Procs :
          (procs[p].pc = "insert" /\ procs'[p].status = 201)
              => AlreadyOneAuctionActive(procs[p].user) = {}]_vars

\* C11: Close, then Republish, then the same bid again, then Close again
\* leaves the winner with the settlement of exactly one close.  The run is
\* pinned so that the winner's record before the first close is the initial
\* one: the auction is the only one ever created, the last request was the
\* successful Republish that found it settled with this winner, and the
\* second close happens at instant 2, before which the auction can have
\* been republished only once.
C11_OneSettlement ==
    \A a \in AuctionIds, p \in Procs :
        (/\ usedIds = {a}
         /\ now = 2
         /\ auctions[a] # NoDoc
         /\ auctions[a].commissionCalculated
         /\ auctions[a].highestBidder # NoUser
         /\ procs[p].pc = "done"
         /\ procs[p].op = "republish"
         /\ procs[p].status = 200
         /\ procs[p].id = a
         /\ procs[p].cc
         /\ procs[p].hb = auctions[a].highestBidder)
            => LET amount == auctions[a].currentBid IN
               users[auctions[a].highestBidder] =
                   [moneySpent |-> amount, auctionsWon |-> 1,
                    unpaidCommission |-> Commission(amount)]

\* C12: when the last request was a successful Republish of an auction and
\* no bid has been placed on it since, the close of that auction leaves it
\* with currentBid 0, no highestBidder and commissionCalculated true, and
\* changes no user's moneySpent or auctionsWon.
C12_RepublishThenClose ==
    [][\A a \in AuctionIds, p \in Procs :
          (/\ procs[p].pc = "done"
           /\ procs[p].op = "republish"
           /\ procs[p].status = 200
           /\ procs[p].id = a
           /\ auctions[a] # NoDoc
           /\ BidsOf(a) = {}
           /\ ~auctions[a].commissionCalculated
           /\ auctions'[a] # NoDoc
           /\ auctions'[a].commissionCalculated)
              => /\ auctions'[a].currentBid = 0
                 /\ auctions'[a].highestBidder = NoUser
                 /\ \A u \in UserIds :
                       /\ users'[u].moneySpent = users[u].moneySpent
                       /\ users'[u].auctionsWon = users[u].auctionsWon]_vars

C12_Witness ==
    \E a \in AuctionIds, p \in Procs :
        /\ procs[p].pc = "done"
        /\ procs[p].op = "republish"
        /\ procs[p].status = 200
        /\ procs[p].id = a
        /\ procs[p].hb # NoUser
        /\ auctions[a] # NoDoc
        /\ BidsOf(a) = {}
        /\ auctions[a].commissionCalculated
        /\ auctions[a].currentBid = 0
        /\ auctions[a].highestBidder = NoUser

\* C13: Republish sets a user's unpaidCommission to zero only when the
\* republished auction was created by that user: a step that takes a user's
\* unpaidCommission from a positive value to 0 is the clearing step of a
\* Republish of an auction that user created.
C13_ClearsOnlyCreator ==
    [][\A u \in UserIds :
          (users[u].unpaidCommission > 0 /\ users'[u].unpaidCommission = 0)
              => \E p \in Procs :
                    /\ procs[p].pc = "cleanup"
                    /\ procs[p].user = u
                    /\ auctions[procs[p].id] # NoDoc
                    /\ auctions[procs[p].id].createdBy = u]_vars

\* C14: deleting an auction cascades to its bids, so that in every state
\* each Bid record references an Auction that exists.
C14_BidsReferToAuctions ==
    \A b \in bidStore : auctions[b.auctionItem] # NoDoc

\* the bids accepted on auction a in its current run are those of the Bid
\* collection; currentBid is the largest of their amounts and highestBidder
\* the bidder of that one bid
HighestBidIsMaximum ==
    \A a \in AuctionIds :
        auctions[a] # NoDoc =>
            IF BidsOf(a) = {}
            THEN auctions[a].currentBid = 0 /\ auctions[a].highestBidder = NoUser
            ELSE \E b \in BidsOf(a) :
                    /\ \A c \in BidsOf(a) : c = b \/ c.amount < b.amount
                    /\ auctions[a].currentBid = b.amount
                    /\ auctions[a].highestBidder = b.bidder

\* C15: under any interleaving of concurrent bid requests on an auction,
\* after every step currentBid is the maximum amount among the accepted bids
\* of the current run and highestBidder is the bidder of that maximum; and a
\* bid whose amount is <= currentBid at the moment its update is applied is
\* rejected and writes nothing.
C15_ConcurrentBids ==
    [][/\ HighestBidIsMaximum'
       /\ \A p \in Procs :
             (/\ procs[p].pc = "applyBid"
              /\ procs'[p].pc = "done"
              /\ procs[p].amount <= auctions[procs[p].id].currentBid)
                 => /\ procs'[p].status >= 400
                    /\ auctions' = auctions
                    /\ bidStore' = bidStore]_vars

C15_Witness ==
    \E a \in AuctionIds, p \in Procs :
        /\ procs[p].op = "bid"
        /\ procs[p].error = "StaleBid"
        /\ procs[p].id = a
        /\ procs[p].amount <= auctions[a].currentBid
        /\ \E b, c \in BidsOf(a) : b.bidder # c.bidder /\ b.amount < c.amount

\* C16: a Republish of a closed auction that has a highestBidder but was
\* never settled (commissionCalculated false when the request read it)
\* changes no user's moneySpent or auctionsWon.
C16_UnsettledNotReversed ==
    [][\A p \in Procs :
          (/\ procs[p].op = "republish"
           /\ InFlight(p)
           /\ procs[p].hb # NoUser
           /\ ~procs[p].cc)
              => \A u \in UserIds :
                    /\ users'[u].moneySpent = users[u].moneySpent
                    /\ users'[u].auctionsWon = users[u].auctionsWon]_vars

\* C17: within one Republish the deletion of the Bid records and the
\* clearing of unpaidCommission are attempted only after the reversal of the
\* winner's settlement and the reset of the auction have committed.  A
\* request that is not yet past the reset deletes no Bid and clears no
\* unpaidCommission, also in the step in which one of its writes fails; it
\* gets past the reset only in the step that commits the reset, and reaches
\* the reset of an auction with a highestBidder only in the step that
\* commits the reversal.
C17_CleanupAfterCommits ==
    [][\A p \in Procs :
          LET id == procs[p].id
              w == procs[p].hb
          IN (procs[p].op = "republish" /\ InFlight(p)) =>
             /\ procs[p].pc # "cleanup" =>
                   /\ bidStore' = bidStore
                   /\ \A u \in UserIds :
                         users'[u].unpaidCommission = users[u].unpaidCommission
                   /\ procs'[p].del \notin {"ok", "fail"}
                   /\ procs'[p].clr \notin {"ok", "fail"}
             /\ (procs[p].pc # "cleanup" /\ procs'[p].pc = "cleanup") =>
                   /\ procs[p].pc = "reset"
                   /\ auctions' # auctions
                   /\ auctions'[id].startTime = procs[p].startTime
                   /\ auctions'[id].endTime = procs[p].endTime
                   /\ auctions'[id].currentBid = 0
                   /\ auctions'[id].highestBidder = NoUser
                   /\ ~auctions'[id].commissionCalculated
             /\ (procs[p].pc # "reset" /\ procs'[p].pc = "reset" /\ w # NoUser) =>
                   /\ procs[p].pc = "saveUser"
                   /\ users'[w].moneySpent = users[w].moneySpent - procs[p].cb
                   /\ users'[w].auctionsWon = users[w].auctionsWon - 1]_vars

C17_Witness ==
    \E p \in Procs :
        /\ Pending(p)
        /\ procs[p].op = "republish"
        /\ procs[p].failedAt \in {"saveUser", "reset"}
        /\ BidsOf(procs[p].id) # {}
        /\ users[procs[p].user].unpaidCommission > 0

\* C18: a Republish with a missing startTime or endTime is answered, after
\* the error middleware, with a status of the 4xx class.
C18_MissingTimesIs4xx ==
    \A p \in Procs :
        (procs[p].op = "republish" /\ procs[p].error = "MissingTimes")
            => procs[p].status \in 400..499

\* C19: a Republish rejected for a validation reason (invalid id, auction
\* not found, auction still active, missing times, startTime not in the
\* future, startTime >= endTime) ends in the step that rejects it and leaves
\* every Auction, Bid and User record as it was.
RepublishValidationErrors ==
    {"InvalidId", "NotFound", "StillActive", "MissingTimes",
     "StartNotFuture", "StartNotBeforeEnd"}

C19_RejectedChangesNothing ==
    [][\A p \in Procs :
          (Arrives(p, "republish") /\ procs'[p].error \in RepublishValidationErrors)
              => /\ procs'[p].pc = "done"
                 /\ auctions' = auctions
                 /\ bidStore' = bidStore
                 /\ users' = users]_vars

C19_Witness ==
    \E p \in Procs :
        /\ procs[p].op = "republish"
        /\ procs[p].error = "StartNotBeforeEnd"
        /\ auctions[procs[p].id] # NoDoc
        /\ auctions[procs[p].id].highestBidder # NoUser
        /\ auctions[procs[p].id].commissionCalculated
        /\ BidsOf(procs[p].id) # {}
        /\ users[auctions[procs[p].id].highestBidder].moneySpent > 0

\* C20: a Republish of an existing closed auction with a valid new schedule
\* (one that passed every check) always completes: it ends with status 200
\* and the auction reset, also when the user its highestBidder refers to has
\* been deleted.
C20_RepublishCompletes ==
    [][\A p \in Procs :
          (procs[p].op = "republish" /\ InFlight(p) /\ procs'[p].pc = "done")
              => LET doc == auctions'[procs[p].id] IN
                 /\ procs'[p].status = 200
                 /\ doc # NoDoc
                 /\ doc.currentBid = 0
                 /\ doc.highestBidder = NoUser
                 /\ doc.bids = {}
                 /\ ~doc.commissionCalculated
                 /\ doc.endTime > now]_vars

====
